---- MODULE Spec2Model ----
(***************************************************************************)
(* A model of streamlit-app.py: the Streamlit script that draws a          *)
(* synthetic bivariate-normal dataset, bootstraps its Pearson correlation  *)
(* and displays the bootstrap mean and a 95% percentile interval.          *)
(*                                                                         *)
(* Numbers.  Slider correlations are kept in tenths (the slider step is    *)
(* 0.1), data values in tenths, and correlation estimates in fixed point   *)
(* with Scale units per 1.0.  A float is a record [nan, v]: IEEE NaN is    *)
(* the record with nan = TRUE, and every comparison with it is false.      *)
(*                                                                         *)
(* Random source.  np.random's global generator is a deterministic state   *)
(* machine: every draw is a function of the state and advances it.  It is  *)
(* modelled by a small linear congruential generator whose outputs are     *)
(* taken from the high bits of the state.                                  *)
(***************************************************************************)
EXTENDS Integers, Sequences, FiniteSets, TLC

VARIABLES
    pc,                     \* position of the script
    cycle,                  \* number of script runs started so far
    n_samples,              \* line 50
    correlation,            \* line 51, in tenths
    n_bootstrap,            \* line 52
    rng,                    \* state of np.random's global generator
    data,                   \* line 75
    i,                      \* rounds of the loop of line 15 done so far
    sample,                 \* line 16, the current resample
    correlations,           \* line 14 / line 95
    mean_line,              \* line 122
    confidence_interval,    \* line 143
    seed0,                  \* rng as it was when the current run started
    log                     \* the previous run of the core, as its caller recorded it

vars == <<pc, cycle, n_samples, correlation, n_bootstrap, rng, data, i, sample,
          correlations, mean_line, confidence_interval, seed0, log>>

---------------------------------------------------------------------------
(* Bounds of the model *)

\* largest dataset size and iteration count a direct caller of the core passes
MaxN == 4
MaxB == 2
\* how many steps above its minimum the user moves the sample size slider
SpanN == 0
\* how many steps from either end of the correlation slider the user stays
SpanC == 0
\* script runs (calls of the core) in one behaviour
MaxCycles == 2
\* the generator starts in one of the states 0..MaxSeed
MaxSeed == 1

---------------------------------------------------------------------------
(* Program constants: the three sliders of lines 50-52 *)

SampleSizeMin == 10
SampleSizeMax == 500
\* True Correlation runs from -1.0 to 1.0 in steps of 0.1: tenths
CorrelationMin == -10
CorrelationMax == 10
CorrelationDefault == 5
BootstrapMin == 100
BootstrapMax == 5000

\* 1.0 in tenths
One == 10

---------------------------------------------------------------------------
(* Fixed point and floats *)

\* fractional bits of a correlation estimate
FracBits == 6
Scale == 2 ^ FracBits

NaN == [nan |-> TRUE, v |-> 0]
Fl(x) == [nan |-> FALSE, v |-> x]
IsNaN(f) == f.nan

\* IEEE comparison: false as soon as one side is NaN
Leq(a, b) == ~a.nan /\ ~b.nan /\ a.v <= b.v

Abs(x) == IF x < 0 THEN -x ELSE x
Sign(x) == IF x < 0 THEN -1 ELSE IF x > 0 THEN 1 ELSE 0

\* floor of the square root
RECURSIVE ISqrt(_)
ISqrt(q) ==
    IF q < 2 THEN q
    ELSE LET r == 2 * ISqrt(q \div 4)
         IN  IF (r + 1) * (r + 1) <= q THEN r + 1 ELSE r

\* s[lo] + ... + s[hi], by halves
RECURSIVE SumRange(_, _, _)
SumRange(s, lo, hi) ==
    IF lo > hi THEN 0
    ELSE IF lo = hi THEN s[lo]
    ELSE LET mid == (lo + hi) \div 2
         IN  SumRange(s, lo, mid) + SumRange(s, mid + 1, hi)

Sum(s) == SumRange(s, 1, Len(s))

\* floor(rem * 2^k / den) for 0 <= rem < den, by binary long division
RECURSIVE Quot(_, _, _)
Quot(rem, den, k) ==
    IF k = 0 THEN 0
    ELSE LET r2 == 2 * rem
             bit == IF r2 >= den THEN 1 ELSE 0
         IN  bit * 2 ^ (k - 1) + Quot(r2 - bit * den, den, k - 1)

---------------------------------------------------------------------------
(* np.random *)

RngM == 16
RngA == 5
RngC == 3

NextState(s) == (RngA * s + RngC) % RngM

\* the state after k draws
RECURSIVE Advance(_, _)
Advance(s, k) ==
    IF k = 0 THEN s
    ELSE IF k = 1 THEN NextState(s)
    ELSE Advance(Advance(s, k \div 2), k - k \div 2)

\* a uniform integer in [0, k) from state s
Bounded(s, k) == (s * k) \div RngM

\* a standard normal draw from state s, in whole units: -1, 0 or 1
StandardNormal(s) == Bounded(s, 3) - 1

\* np.random.randint(high, size=size): the vector and the state after it
randint(high, size, s) ==
    [out |-> [k \in 1..size |-> Bounded(Advance(s, k - 1), high)],
     rng |-> Advance(s, size)]

\* np.random.multivariate_normal(mean, cov, n): 2n standard normals, two per
\* row, mapped through the square root of cov.  For the symmetric 2x2 cov the
\* singular vectors are (1,1)/sqrt 2 and (1,-1)/sqrt 2 with singular values
\* cov[1][1] + cov[1][2] and cov[2][2] - cov[2][1].
multivariate_normal(mean, cov, n, s) ==
    LET a == ISqrt(((cov[1][1] + cov[1][2]) * One) \div 2)
        b == ISqrt(((cov[2][2] - cov[2][1]) * One) \div 2)
        z1(k) == StandardNormal(Advance(s, 2 * k - 2))
        z2(k) == StandardNormal(Advance(s, 2 * k - 1))
    IN  [out |-> [k \in 1..n |-> <<mean[1] + a * z1(k) + b * z2(k),
                                   mean[2] + a * z1(k) - b * z2(k)>>],
         rng |-> Advance(s, 2 * n)]

---------------------------------------------------------------------------
(* The core: lines 8-21 *)

\* line 10
CovarianceMatrix(c) == <<<<One, c>>, <<c, One>>>>

\* one row short
generate_data_short(n, c, s) ==
    multivariate_normal(<<0, 0>>, CovarianceMatrix(c), n - 1, s)

\* lines 8-11: the dataset and the generator's state after it
generate_data(n, c, s) ==
    multivariate_normal(<<0, 0>>, CovarianceMatrix(c), n, s)

\* x and y resampled with separate index vectors
resample_split(d, s) ==
    LET r1 == randint(Len(d), Len(d), s)
        r2 == randint(Len(d), Len(d), r1.rng)
    IN  [sample |-> [k \in 1..Len(d) |-> <<d[r1.out[k] + 1][1], d[r2.out[k] + 1][2]>>],
         data   |-> d,
         rng    |-> r2.rng]

\* the rows written back into the array they were drawn from
resample_inplace(d, s) ==
    LET r == randint(Len(d), Len(d), s)
        picked == [k \in 1..Len(d) |-> d[r.out[k] + 1]]
    IN  [sample |-> picked, data |-> picked, rng |-> r.rng]

\* the indices come from a second generator, which the seed does not reach
\* (the number of the run stands for its state)
resample_fresh_entropy(d, s) ==
    LET r == randint(Len(d), Len(d), s)
        u == randint(Len(d), Len(d), (s + cycle) % RngM)
    IN  [sample |-> [k \in 1..Len(d) |-> d[u.out[k] + 1]],
         data   |-> d,
         rng    |-> r.rng]

\* lines 20-21: data[np.random.randint(len(data), size=len(data))].  Indexing
\* with an integer array copies the rows picked; data is left as it was.
resample(d, s) ==
    LET r == randint(Len(d), Len(d), s)
    IN  [sample |-> [k \in 1..Len(d) |-> d[r.out[k] + 1]],
         data   |-> d,
         rng    |-> r.rng]

\* n times the (co)variance sums of the two columns of m
SXX(m) == Len(m) * Sum([k \in 1..Len(m) |-> m[k][1] * m[k][1]])
            - Sum([k \in 1..Len(m) |-> m[k][1]]) * Sum([k \in 1..Len(m) |-> m[k][1]])
SYY(m) == Len(m) * Sum([k \in 1..Len(m) |-> m[k][2] * m[k][2]])
            - Sum([k \in 1..Len(m) |-> m[k][2]]) * Sum([k \in 1..Len(m) |-> m[k][2]])
SXY(m) == Len(m) * Sum([k \in 1..Len(m) |-> m[k][1] * m[k][2]])
            - Sum([k \in 1..Len(m) |-> m[k][1]]) * Sum([k \in 1..Len(m) |-> m[k][2]])

Clip(x, lo, hi) == IF x < lo THEN lo ELSE IF x > hi THEN hi ELSE x

\* the regression slope of y on x in place of the correlation
corrcoef_slope(m) ==
    IF SXX(m) = 0 \/ SYY(m) = 0 THEN NaN
    ELSE Fl((SXY(m) * Scale) \div SXX(m))

\* line 17: np.corrcoef(sample.T)[0, 1] = cov / (std_x * std_y), clipped to
\* [-1, 1]; 0/0 is NaN when a column has no variance
corrcoef(m) ==
    IF SXX(m) = 0 \/ SYY(m) = 0 THEN NaN
    ELSE LET num == SXY(m) * SXY(m)
             den == SXX(m) * SYY(m)
             q   == IF num >= den THEN Scale * Scale
                    ELSE Quot(num, den, 2 * FracBits)
         IN  Fl(Clip(Sign(SXY(m)) * ISqrt(q), -Scale, Scale))

\* a round that drops an undefined estimate instead of appending it
bootstrap_round_skip_nan(d, cs, s) ==
    LET r == resample(d, s)
        e == corrcoef(r.sample)
    IN  [sample |-> r.sample, data |-> r.data, rng |-> r.rng,
         correlations |-> IF IsNaN(e) THEN cs ELSE Append(cs, e)]

\* lines 16-17: one round of the loop
bootstrap_round(d, cs, s) ==
    LET r == resample(d, s)
    IN  [sample |-> r.sample, data |-> r.data, rng |-> r.rng,
         correlations |-> Append(cs, corrcoef(r.sample))]

---------------------------------------------------------------------------
(* The summary: lines 98, 122 and 143 *)

HasNaN(cs) == \E k \in 1..Len(cs) : IsNaN(cs[k])
Values(cs) == [k \in 1..Len(cs) |-> cs[k].v]

\* line 98: np.histogram takes its range from the minimum and the maximum of
\* its input and raises ValueError when they are not finite
histogram_raises(cs) == HasNaN(cs)

\* line 122: np.mean; NaN as soon as one element is NaN
mean(cs) == IF HasNaN(cs) THEN NaN ELSE Fl(Sum(Values(cs)) \div Len(cs))

\* the k-th smallest of the values s: what the sorted array holds at rank k
Ranked(s, k) ==
    CHOOSE x \in {s[j] : j \in 1..Len(s)} :
        /\ Cardinality({j \in 1..Len(s) : s[j] < x}) < k
        /\ Cardinality({j \in 1..Len(s) : s[j] <= x}) >= k

\* the percentile p (in thousandths) of the values s, by linear interpolation
\* between the two nearest ranks of the sorted values
Quantile(s, p) ==
    LET h    == (Len(s) - 1) * p
        lo   == h \div 1000
        frac == h % 1000
        a    == Ranked(s, lo + 1)
        b    == Ranked(s, IF lo + 2 <= Len(s) THEN lo + 2 ELSE Len(s))
    IN  a + ((b - a) * frac) \div 1000

percentile_swapped(cs, ps) ==
    IF HasNaN(cs) THEN [k \in 1..Len(ps) |-> NaN]
    ELSE [k \in 1..Len(ps) |-> Fl(Quantile(Values(cs), ps[Len(ps) + 1 - k]))]

\* line 143: np.percentile(a, [2.5, 97.5]); NaN as soon as one element is NaN
percentile(cs, ps) ==
    IF HasNaN(cs) THEN [k \in 1..Len(ps) |-> NaN]
    ELSE [k \in 1..Len(ps) |-> Fl(Quantile(Values(cs), ps[k]))]

\* 2.5 and 97.5 percent, in thousandths
Percents == <<25, 975>>

---------------------------------------------------------------------------
(* Parameter sources *)

Min(a, b) == IF a <= b THEN a ELSE b

SampleSizes_from_one == 1..(1 + SpanN)

\* line 50: st.sidebar.slider("Sample Size", 10, 500, 100)
SampleSizes == SampleSizeMin..Min(SampleSizeMin + SpanN, SampleSizeMax)

\* line 51: st.sidebar.slider("True Correlation", -1.0, 1.0, 0.5, 0.1)
Correlations ==
    {c \in CorrelationMin..CorrelationMax :
        \/ c <= CorrelationMin + SpanC
        \/ c >= CorrelationMax - SpanC
        \/ c = CorrelationDefault}

\* line 52: st.sidebar.slider("Number of Bootstrap Samples", 100, 5000, 1000)
\* The user leaves this slider at its minimum: the loop of a run has that many
\* rounds, and every further value adds runs of more than a hundred steps.
BootstrapSizes == {b \in BootstrapMin..BootstrapMax : b = BootstrapMin}

\* what a direct caller of the core may pass: n >= 2, correlation in [-1, 1],
\* iterations >= 1
CoreSizes == 2..MaxN
CoreCorrelations == {CorrelationMin, 0, CorrelationDefault, CorrelationMax}
CoreIterations == 1..MaxB

Seeds == 0..Min(MaxSeed, RngM - 1)

---------------------------------------------------------------------------
(* The script *)

Init ==
    /\ pc = "idle"
    /\ cycle = 0
    /\ n_samples = 0
    /\ correlation = 0
    /\ n_bootstrap = 0
    /\ rng \in Seeds
    /\ data = <<>>
    /\ i = 0
    /\ sample = <<>>
    /\ correlations = <<>>
    /\ mean_line = NaN
    /\ confidence_interval = <<>>
    /\ seed0 = rng
    /\ log = <<>>

Ended == pc \in {"done", "failed"}

\* a run of the script starts with the names of the last run gone
StartRun(n, c, b) ==
    /\ pc \in {"idle", "done", "failed"}
    /\ cycle < MaxCycles
    /\ cycle' = cycle + 1
    /\ n_samples' = n
    /\ correlation' = c
    /\ n_bootstrap' = b
    /\ data' = <<>>
    /\ i' = 0
    /\ sample' = <<>>
    /\ correlations' = <<>>
    /\ mean_line' = NaN
    /\ confidence_interval' = <<>>
    /\ seed0' = rng
    /\ pc' = "generate"
    /\ UNCHANGED rng

\* lines 48-52: the user moves a slider and Streamlit runs the script again
SliderChange ==
    \E n \in SampleSizes, c \in Correlations, b \in BootstrapSizes :
        /\ StartRun(n, c, b)
        /\ UNCHANGED log

\* a caller of the core runs lines 74-144 on parameters of its own choice
CoreCall ==
    \E n \in CoreSizes, c \in CoreCorrelations, b \in CoreIterations :
        /\ StartRun(n, c, b)
        /\ log' = <<>>

\* the caller keeps what the run returned and runs lines 74-144 again on the
\* same parameters
CoreRepeat ==
    /\ Ended
    /\ StartRun(n_samples, correlation, n_bootstrap)
    /\ log' = <<[seed |-> seed0, n |-> n_samples, c |-> correlation,
                 b |-> n_bootstrap, data |-> data,
                 correlations |-> correlations]>>

\* line 75
GenerateData ==
    /\ pc = "generate"
    /\ LET g == generate_data(n_samples, correlation, rng)
       IN  /\ data' = g.out
           /\ rng' = g.rng
    /\ pc' = "plot"
    /\ UNCHANGED <<cycle, n_samples, correlation, n_bootstrap, i, sample,
                   correlations, mean_line, confidence_interval, seed0, log>>

\* lines 77-92: the scatter plot and the regression line read data
PlotData ==
    /\ pc = "plot"
    /\ pc' = "bootstrap"
    /\ i' = 0
    /\ correlations' = <<>>
    /\ UNCHANGED <<cycle, n_samples, correlation, n_bootstrap, rng, data, sample,
                   mean_line, confidence_interval, seed0, log>>

\* lines 15-17: one round of the loop of bootstrap_correlation
BootstrapRound ==
    /\ pc = "bootstrap"
    /\ i < n_bootstrap
    /\ LET r == bootstrap_round(data, correlations, rng)
       IN  /\ sample' = r.sample
           /\ data' = r.data
           /\ rng' = r.rng
           /\ correlations' = r.correlations
    /\ i' = i + 1
    /\ UNCHANGED <<pc, cycle, n_samples, correlation, n_bootstrap, mean_line,
                   confidence_interval, seed0, log>>

\* line 18 and line 95: the loop is over and the list is returned
BootstrapReturn ==
    /\ pc = "bootstrap"
    /\ i >= n_bootstrap
    /\ sample' = <<>>
    /\ pc' = "histogram"
    /\ UNCHANGED <<cycle, n_samples, correlation, n_bootstrap, rng, data, i,
                   correlations, mean_line, confidence_interval, seed0, log>>

\* line 98: the run ends here with a ValueError when an estimate is NaN
Histogram ==
    /\ pc = "histogram"
    /\ pc' = IF histogram_raises(correlations) THEN "failed" ELSE "mean"
    /\ UNCHANGED <<cycle, n_samples, correlation, n_bootstrap, rng, data, i, sample,
                   correlations, mean_line, confidence_interval, seed0, log>>

\* lines 120-127
MeanLine ==
    /\ pc = "mean"
    /\ mean_line' = mean(correlations)
    /\ pc' = "percentile"
    /\ UNCHANGED <<cycle, n_samples, correlation, n_bootstrap, rng, data, i, sample,
                   correlations, confidence_interval, seed0, log>>

\* lines 142-144
ConfidenceInterval ==
    /\ pc = "percentile"
    /\ confidence_interval' = percentile(correlations, Percents)
    /\ pc' = "done"
    /\ UNCHANGED <<cycle, n_samples, correlation, n_bootstrap, rng, data, i, sample,
                   correlations, mean_line, seed0, log>>

Run ==
    \/ GenerateData
    \/ PlotData
    \/ BootstrapRound
    \/ BootstrapReturn
    \/ Histogram
    \/ MeanLine
    \/ ConfidenceInterval

\* the application: the sliders drive the script
Next == SliderChange \/ Run
Spec == Init /\ [][Next]_vars

\* the core under any caller that keeps its preconditions
NextCore == CoreCall \/ CoreRepeat \/ Run
SpecCore == Init /\ [][NextCore]_vars

---------------------------------------------------------------------------
(* Claims *)

\* bootstrap_correlation has returned its list
Returned == pc \in {"histogram", "mean", "percentile", "done", "failed"}

\* the resample has variance in both columns
NonDegenerate(m) ==
    /\ \E j, k \in 1..Len(m) : m[j][1] # m[k][1]
    /\ \E j, k \in 1..Len(m) : m[j][2] # m[k][2]

\* the estimates that are defined
Defined(cs) == SelectSeq(cs, LAMBDA e : ~IsNaN(e))

\* C1: for N >= 2 and B >= 1, bootstrap_correlation terminates and returns
\* exactly B estimates.  While the loop runs the list holds one estimate per
\* round done and at most B rounds are done; every step of the loop is either
\* a round, which appends exactly one estimate (a degenerate round too) and
\* leaves one round less to do, or the return of the list after round B; the
\* list returned has B elements.
C1_LengthExact ==
    /\ [](pc = "bootstrap" => Len(correlations) = i /\ i <= n_bootstrap)
    /\ [](Returned => Len(correlations) = n_bootstrap)
    /\ [][pc = "bootstrap" =>
            \/ /\ pc' = "bootstrap"
               /\ i < n_bootstrap
               /\ i' = i + 1
               /\ Len(correlations') = Len(correlations) + 1
               /\ SubSeq(correlations', 1, Len(correlations)) = correlations
            \/ /\ pc' = "histogram"
               /\ i = n_bootstrap
               /\ correlations' = correlations]_vars

\* a call with N >= 2 and B = 2 has returned, one of its rounds degenerate
C1_Witness ==
    /\ pc = "histogram"
    /\ n_samples >= 2
    /\ n_bootstrap = 2
    /\ Len(correlations) = 2
    /\ HasNaN(correlations)
    /\ ~IsNaN(correlations[1])

\* C2: an undefined estimate (a resample without variance in x or in y) is
\* either redrawn, so that the list returned has B defined estimates, or kept
\* as a sentinel that the pipeline leaves out of the bootstrap mean and of the
\* percentile interval, which are then those of the defined estimates.
C2_UndefinedHandled ==
    Returned =>
        \/ ~HasNaN(correlations) /\ Len(correlations) = n_bootstrap
        \/ /\ pc # "failed"
           /\ pc \in {"percentile", "done"}
                => mean_line = mean(Defined(correlations))
           /\ pc = "done"
                => confidence_interval = percentile(Defined(correlations), Percents)

\* C3: resample(data) has as many rows as data, and each of its rows is a row
\* of data, x and y together.
C3_ResampleRows ==
    (pc = "bootstrap" /\ i >= 1) =>
        /\ Len(sample) = Len(data)
        /\ \A k \in 1..Len(sample) : \E j \in 1..Len(data) : sample[k] = data[j]

\* a resample of a dataset of distinct rows in which one row occurs twice and
\* another row not at all
C3_Witness ==
    /\ pc = "bootstrap"
    /\ i >= 1
    /\ \A j, k \in 1..Len(data) : j # k => data[j] # data[k]
    /\ \E j, k \in 1..Len(sample) : j # k /\ sample[j] = sample[k]
    /\ \E j \in 1..Len(data) : \A k \in 1..Len(sample) : sample[k] # data[j]
    /\ \E j, k \in 1..Len(sample) : sample[j] # sample[k]

\* C4: every estimate of a resample with variance in both x and y is defined
\* and lies in [-1, 1]; so does every defined estimate of the list.
C4_EstimateInRange ==
    /\ \A k \in 1..Len(correlations) :
          ~IsNaN(correlations[k])
            => correlations[k].v >= -Scale /\ correlations[k].v <= Scale
    /\ (pc = "bootstrap" /\ i >= 1 /\ NonDegenerate(sample))
          => /\ ~IsNaN(correlations[i])
             /\ correlations[i].v >= -Scale
             /\ correlations[i].v <= Scale

\* a round whose resample has variance in both columns and whose estimate is
\* strictly between -1 and 1 and not 0
C4_Witness ==
    /\ pc = "bootstrap"
    /\ i >= 1
    /\ NonDegenerate(sample)
    /\ ~IsNaN(correlations[i])
    /\ Abs(correlations[i].v) \notin {0, Scale}

C6_PreconditionsHold ==
    pc # "idle" =>
        /\ n_samples \in Nat /\ n_samples >= 2
        /\ correlation >= -One /\ correlation <= One
        /\ n_bootstrap \in Nat /\ n_bootstrap >= 1

\* the core has run a round on slider values at the ends of their ranges
C6_Witness ==
    /\ pc = "bootstrap"
    /\ i >= 1
    /\ n_samples = SampleSizeMin
    /\ correlation = CorrelationMin
    /\ n_bootstrap = BootstrapMin

\* C7: generate_data(n, correlation) returns n rows of two values, drawn
\* with the covariance matrix [[1, correlation], [correlation, 1]].
C7_ShapeOfData ==
    pc \notin {"idle", "generate"} =>
        /\ Len(data) = n_samples
        /\ \A k \in 1..Len(data) : Len(data[k]) = 2
        /\ data = multivariate_normal(<<0, 0>>,
                     <<<<One, correlation>>, <<correlation, One>>>>,
                     n_samples, seed0).out

\* a dataset of the largest size has been generated with correlation 0.5 and
\* its rows are not all alike
C7_Witness ==
    /\ pc = "plot"
    /\ n_samples = MaxN
    /\ correlation = CorrelationDefault
    /\ Len(data) = MaxN
    /\ \E j, k \in 1..Len(data) : data[j] # data[k]

\* C8: the interval displayed is (lower, upper) with lower <= upper, and
\* both lie between the least and the greatest estimate.
C8_IntervalOrdered ==
    pc = "done" =>
        /\ Len(confidence_interval) = 2
        /\ Leq(confidence_interval[1], confidence_interval[2])
        /\ \E k \in 1..Len(correlations) :
              Leq(correlations[k], confidence_interval[1])
        /\ \E k \in 1..Len(correlations) :
              Leq(confidence_interval[2], correlations[k])
        /\ \A k \in 1..Len(correlations) :
              Leq(correlations[k], confidence_interval[2])
                \/ Leq(confidence_interval[1], correlations[k])

\* an interval with lower < upper, both strictly inside the range of the
\* estimates
C8_Witness ==
    /\ pc = "done"
    /\ confidence_interval[1].v < confidence_interval[2].v
    /\ \E k \in 1..Len(correlations) : correlations[k].v < confidence_interval[1].v
    /\ \E k \in 1..Len(correlations) : correlations[k].v > confidence_interval[2].v

\* C9: from its generation to the end of the run, no step changes the
\* dataset: not the plot, not a round of the loop, not the summary.
C9_DataImmutable ==
    [][(pc \notin {"idle", "generate"} /\ cycle' = cycle) => data' = data]_vars

\* a run has ended after its rounds with the dataset as it was generated
C9_Witness ==
    /\ pc = "done"
    /\ Len(correlations) = n_bootstrap
    /\ n_bootstrap >= 1
    /\ data = generate_data(n_samples, correlation, seed0).out
    /\ \E j, k \in 1..Len(data) : data[j] # data[k]

\* C10: every run ends with generation, bootstrap and summary all done, in that
\* order, and what it displays is the mean and the interval of the list built
\* in this run from the dataset generated in this run.
C10_RunComplete ==
    Ended =>
        /\ pc = "done"
        /\ data = generate_data(n_samples, correlation, seed0).out
        /\ Len(correlations) = n_bootstrap
        /\ mean_line = mean(correlations)
        /\ confidence_interval = percentile(correlations, Percents)

====
